---- MODULE Spec2Model ----
(***************************************************************************)
(* RemoveLiquidity of the mSOL-SOL liquidity pool                          *)
(* (programs/marinade-finance/src/instructions/liq_pool/                   *)
(* remove_liquidity.rs).  One call of process() is one transaction: it     *)
(* either returns Ok and its account writes and CPI effects are kept, or   *)
(* it returns an error (or panics) and every account is left as it was.    *)
(***************************************************************************)
EXTENDS Integers, FiniteSets, Sequences, TLC

\* ------------------------------------------------------------------ bounds
MaxSupply == 2          \* largest LP supply (virtual or minted) drawn by Init
MaxReserve == 2         \* largest distributable SOL / mSOL leg drawn by Init
MaxTokens == 3          \* largest `tokens` argument; above MaxSupply on purpose
WordBits == 4           \* width standing for u64: values are 0 .. 2^WordBits - 1

U64_MAX == 2^WordBits - 1

\* ------------------------------------------------------------- identities
None == "None"                                   \* COption::None
Keys == {"owner", "delegate", "stranger"}        \* burn_from_authority keys
Ok == "Ok"

VARIABLES
    paused,                     \* state.paused
    lp_supply,                  \* state.liq_pool.lp_supply (virtual supply)
    lp_mint_supply,             \* lp_mint.supply (actual supply)
    sol_leg_balance,            \* liq_pool_sol_leg_pda.lamports()
    msol_leg_balance,           \* liq_pool_msol_leg.amount
    burn_from,                  \* [owner, delegate, delegated_amount, amount]
    user_sol_balance,           \* transfer_sol_to.lamports()
    user_msol_balance,          \* transfer_msol_to.amount
    rent_exempt_for_token_acc,  \* state.rent_exempt_for_token_acc
    min_withdraw,               \* state.min_withdraw
    msol_price,                 \* lamports per mSOL used by calc_lamports_from_msol_amount
    last                        \* report of the latest call of process()

vars == <<paused, lp_supply, lp_mint_supply, sol_leg_balance, msol_leg_balance,
          burn_from, user_sol_balance, user_msol_balance,
          rent_exempt_for_token_acc, min_withdraw, msol_price, last>>

\* The accounts a call is handed, as one record.
Accounts ==
    [paused |-> paused,
     lp_supply |-> lp_supply,
     lp_mint_supply |-> lp_mint_supply,
     sol_leg_balance |-> sol_leg_balance,
     msol_leg_balance |-> msol_leg_balance,
     burn_from |-> burn_from,
     user_sol_balance |-> user_sol_balance,
     user_msol_balance |-> user_msol_balance,
     rent_exempt_for_token_acc |-> rent_exempt_for_token_acc,
     min_withdraw |-> min_withdraw,
     msol_price |-> msol_price]

\* ---------------------------------------------------------------- helpers
\* State::check_paused
check_paused(a) == IF a.paused THEN "Paused" ELSE Ok

\* Mutant of check_burn_from: the owner branch is tried before the delegate.
check_burn_from_OwnerFirst(bf, authority, tokens) ==
    IF authority = bf.owner
    THEN IF tokens <= bf.amount THEN Ok ELSE "NotEnoughUserFunds"
    ELSE IF bf.delegate = authority
         THEN IF tokens <= bf.delegated_amount THEN Ok ELSE "NotEnoughUserFunds"
         ELSE "WrongTokenOwnerOrDelegate"

\* RemoveLiquidity::check_burn_from
check_burn_from(bf, authority, tokens) ==
    IF bf.delegate = authority
    THEN IF tokens <= bf.delegated_amount THEN Ok ELSE "NotEnoughUserFunds"
    ELSE IF authority = bf.owner
         THEN IF tokens <= bf.amount THEN Ok ELSE "NotEnoughUserFunds"
         ELSE "WrongTokenOwnerOrDelegate"

\* calc::proportional: floor(amount * numerator / denominator) in a wide
\* intermediate, narrowed to u64.
proportional(amount, numerator, denominator) ==
    IF denominator = 0
    THEN [err |-> "DivisionByZeroSupply", val |-> 0]
    ELSE LET q == (amount * numerator) \div denominator
         IN  IF q > U64_MAX
             THEN [err |-> "CalculationFailure", val |-> 0]
             ELSE [err |-> Ok, val |-> q]

\* State::calc_lamports_from_msol_amount
calc_lamports_from_msol_amount(a, msol_amount) ==
    LET v == msol_amount * a.msol_price
    IN  IF v > U64_MAX
        THEN [err |-> "CalculationFailure", val |-> 0]
        ELSE [err |-> Ok, val |-> v]

\* Mutant of update_lp_supply: the virtual supply always follows the mint.
update_lp_supply_Always(a) == [a EXCEPT !.lp_supply = a.lp_mint_supply]

\* Mutant of update_lp_supply: the virtual supply is never written.
update_lp_supply_Never(a) == a

\* process, lines 106-115: "Update virtual lp_supply by real one"
update_lp_supply(a) ==
    IF a.lp_mint_supply > a.lp_supply
    THEN a
    ELSE [a EXCEPT !.lp_supply = a.lp_mint_supply]

\* Mutant of sol_leg_distributable: the rent-exempt floor is not held back.
sol_leg_distributable_NoFloor(a) == [err |-> Ok, val |-> a.sol_leg_balance]

\* process, lines 119-121: sol_leg_balance.checked_sub(rent_exempt).unwrap()
sol_leg_distributable(a) ==
    IF a.sol_leg_balance < a.rent_exempt_for_token_acc
    THEN [err |-> "Panic", val |-> 0]
    ELSE [err |-> Ok, val |-> a.sol_leg_balance - a.rent_exempt_for_token_acc]

\* Mutant of check_min_withdraw: a total equal to min_withdraw is refused.
check_min_withdraw_Strict(a, total) ==
    IF total > a.min_withdraw THEN Ok ELSE "WithdrawAmountIsTooLow"

\* process, lines 130-136: require_gte!(total, min_withdraw)
check_min_withdraw(a, total) ==
    IF total >= a.min_withdraw THEN Ok ELSE "WithdrawAmountIsTooLow"

\* Mutant of checked_add: the sum wraps around the word.
checked_add_Wrapping(x, y) == [err |-> Ok, val |-> (x + y) % (U64_MAX + 1)]

\* process, lines 131-133: checked_add(...).ok_or(CalculationFailure)
checked_add(x, y) ==
    IF x + y > U64_MAX
    THEN [err |-> "CalculationFailure", val |-> 0]
    ELSE [err |-> Ok, val |-> x + y]

\* ------------------------------------------------------------- settlement
\* `fault` names a CPI that the callee refuses for a reason of its own
\* (a frozen or closed account, a failed signer check); "none" otherwise.
Faults == {"none", "transfer", "transfer_token", "burn"}

\* process, lines 143-160: system_program transfer out of the SOL leg
transfer(a, amount, fault) ==
    IF fault = "transfer" \/ a.sol_leg_balance < amount
    THEN [err |-> "TransferFailed", acc |-> a]
    ELSE [err |-> Ok,
          acc |-> [a EXCEPT !.sol_leg_balance = @ - amount,
                            !.user_sol_balance = @ + amount]]

\* process, lines 162-180: token transfer out of the mSOL leg
transfer_token(a, amount, fault) ==
    IF fault = "transfer_token" \/ a.msol_leg_balance < amount
    THEN [err |-> "TokenTransferFailed", acc |-> a]
    ELSE [err |-> Ok,
          acc |-> [a EXCEPT !.msol_leg_balance = @ - amount,
                            !.user_msol_balance = @ + amount]]

\* process, lines 182-192: token burn from burn_from, signed by the authority.
\* The token program takes the amount from the account and from the mint
\* supply, and from the allowance when the signer is the delegate.
burn(a, authority, amount, fault) ==
    LET bf == a.burn_from
        asDelegate == bf.delegate = authority
        left == bf.delegated_amount - amount
    IN  IF \/ fault = "burn"
           \/ bf.amount < amount
           \/ a.lp_mint_supply < amount
           \/ asDelegate /\ bf.delegated_amount < amount
           \/ ~asDelegate /\ authority # bf.owner
        THEN [err |-> "BurnFailed", acc |-> a]
        ELSE [err |-> Ok,
              acc |-> [a EXCEPT
                  !.lp_mint_supply = @ - amount,
                  !.burn_from =
                      IF asDelegate
                      THEN [bf EXCEPT !.amount = @ - amount,
                                      !.delegated_amount = left,
                                      !.delegate = IF left = 0 THEN None ELSE @]
                      ELSE [bf EXCEPT !.amount = @ - amount]]]

\* LiqPool::on_lp_burn: checked subtraction from the virtual supply
on_lp_burn(a, amount) ==
    IF a.lp_supply < amount
    THEN [err |-> "CalculationFailure", acc |-> a]
    ELSE [err |-> Ok, acc |-> [a EXCEPT !.lp_supply = @ - amount]]

\* What one call reports: the error returned, the step that returned it, the
\* accounts as the call left them in memory, the effects it issued in order,
\* the computed amounts and the events it emitted.
Report(err, at, a, issued, sol_out, msol_out, total, events) ==
    [err |-> err, failed_at |-> at, acc |-> a, issued |-> issued,
     sol_out_amount |-> sol_out, msol_out_amount |-> msol_out,
     total |-> total, events |-> events]

\* Mutant of settle: the burn is issued for the SOL amount, not for `tokens`.
settle_BurnWrongAmount(a, authority, tokens, sol_out, msol_out, fault) ==
    LET t1 == IF sol_out > 0 THEN transfer(a, sol_out, fault)
                             ELSE [err |-> Ok, acc |-> a]
        i1 == IF sol_out > 0 THEN <<"transfer">> ELSE <<>>
        t2 == IF msol_out > 0 THEN transfer_token(t1.acc, msol_out, fault)
                              ELSE [err |-> Ok, acc |-> t1.acc]
        i2 == IF msol_out > 0 THEN i1 \o <<"transfer_token">> ELSE i1
        b  == burn(t2.acc, authority, sol_out, fault)
        i3 == i2 \o <<"burn">>
        s  == on_lp_burn(b.acc, tokens)
        i4 == i3 \o <<"on_lp_burn">>
    IN  IF t1.err # Ok THEN [err |-> t1.err, failed_at |-> "transfer", acc |-> t1.acc, issued |-> i1]
        ELSE IF t2.err # Ok THEN [err |-> t2.err, failed_at |-> "transfer_token", acc |-> t2.acc, issued |-> i2]
        ELSE IF b.err # Ok THEN [err |-> b.err, failed_at |-> "burn", acc |-> b.acc, issued |-> i3]
        ELSE IF s.err # Ok THEN [err |-> s.err, failed_at |-> "on_lp_burn", acc |-> s.acc, issued |-> i4]
        ELSE [err |-> Ok, failed_at |-> "none", acc |-> s.acc, issued |-> i4]

\* Mutant of settle: the result of the burn CPI is dropped instead of returned.
settle_BurnUnchecked(a, authority, tokens, sol_out, msol_out, fault) ==
    LET t1 == IF sol_out > 0 THEN transfer(a, sol_out, fault)
                             ELSE [err |-> Ok, acc |-> a]
        i1 == IF sol_out > 0 THEN <<"transfer">> ELSE <<>>
        t2 == IF msol_out > 0 THEN transfer_token(t1.acc, msol_out, fault)
                              ELSE [err |-> Ok, acc |-> t1.acc]
        i2 == IF msol_out > 0 THEN i1 \o <<"transfer_token">> ELSE i1
        b  == burn(t2.acc, authority, tokens, fault)
        i3 == i2 \o <<"burn">>
        s  == on_lp_burn(b.acc, tokens)
        i4 == i3 \o <<"on_lp_burn">>
    IN  IF t1.err # Ok THEN [err |-> t1.err, failed_at |-> "transfer", acc |-> t1.acc, issued |-> i1]
        ELSE IF t2.err # Ok THEN [err |-> t2.err, failed_at |-> "transfer_token", acc |-> t2.acc, issued |-> i2]
        ELSE IF s.err # Ok THEN [err |-> s.err, failed_at |-> "on_lp_burn", acc |-> s.acc, issued |-> i4]
        ELSE [err |-> Ok, failed_at |-> "none", acc |-> s.acc, issued |-> i4]

\* process, lines 143-193: the two conditional transfers, the burn and the
\* virtual-supply decrement, each returning early on an error
settle(a, authority, tokens, sol_out, msol_out, fault) ==
    LET t1 == IF sol_out > 0 THEN transfer(a, sol_out, fault)
                             ELSE [err |-> Ok, acc |-> a]
        i1 == IF sol_out > 0 THEN <<"transfer">> ELSE <<>>
        t2 == IF msol_out > 0 THEN transfer_token(t1.acc, msol_out, fault)
                              ELSE [err |-> Ok, acc |-> t1.acc]
        i2 == IF msol_out > 0 THEN i1 \o <<"transfer_token">> ELSE i1
        b  == burn(t2.acc, authority, tokens, fault)
        i3 == i2 \o <<"burn">>
        s  == on_lp_burn(b.acc, tokens)
        i4 == i3 \o <<"on_lp_burn">>
    IN  IF t1.err # Ok THEN [err |-> t1.err, failed_at |-> "transfer", acc |-> t1.acc, issued |-> i1]
        ELSE IF t2.err # Ok THEN [err |-> t2.err, failed_at |-> "transfer_token", acc |-> t2.acc, issued |-> i2]
        ELSE IF b.err # Ok THEN [err |-> b.err, failed_at |-> "burn", acc |-> b.acc, issued |-> i3]
        ELSE IF s.err # Ok THEN [err |-> s.err, failed_at |-> "on_lp_burn", acc |-> s.acc, issued |-> i4]
        ELSE [err |-> Ok, failed_at |-> "none", acc |-> s.acc, issued |-> i4]

\* Mutant of RemoveLiquidityEvent: the supply recorded is the virtual one.
RemoveLiquidityEvent_VirtualSupply(a, tokens, sol_out, msol_out) ==
    [sol_leg_balance |-> a.sol_leg_balance,
     msol_leg_balance |-> a.msol_leg_balance,
     user_lp_balance |-> a.burn_from.amount,
     user_sol_balance |-> a.user_sol_balance,
     user_msol_balance |-> a.user_msol_balance,
     lp_mint_supply |-> a.lp_supply,
     lp_burned |-> tokens,
     sol_out_amount |-> sol_out,
     msol_out_amount |-> msol_out]

\* process, lines 195-206: the RemoveLiquidityEvent, from the values read at
\* lines 99-107
RemoveLiquidityEvent(a, tokens, sol_out, msol_out) ==
    [sol_leg_balance |-> a.sol_leg_balance,
     msol_leg_balance |-> a.msol_leg_balance,
     user_lp_balance |-> a.burn_from.amount,
     user_sol_balance |-> a.user_sol_balance,
     user_msol_balance |-> a.user_msol_balance,
     lp_mint_supply |-> a.lp_mint_supply,
     lp_burned |-> tokens,
     sol_out_amount |-> sol_out,
     msol_out_amount |-> msol_out]

\* Mutant of withdraw: both legs are divided by the mint supply, not by the
\* virtual supply.
withdraw_UseMintSupply(a, authority, tokens, fault) ==
    LET a1 == update_lp_supply(a)
        i1 == IF a1 # a THEN <<"update_lp_supply">> ELSE <<>>
        d  == sol_leg_distributable(a1)
        so == proportional(tokens, d.val, a1.lp_mint_supply)
        mo == proportional(tokens, a1.msol_leg_balance, a1.lp_mint_supply)
        cv == calc_lamports_from_msol_amount(a1, mo.val)
        total == checked_add(so.val, cv.val)
        mw == check_min_withdraw(a1, total.val)
        st == settle(a1, authority, tokens, so.val, mo.val, fault)
    IN  IF d.err # Ok THEN Report(d.err, "checked_sub", a1, i1, 0, 0, 0, <<>>)
        ELSE IF so.err # Ok THEN Report(so.err, "proportional", a1, i1, 0, 0, 0, <<>>)
        ELSE IF mo.err # Ok THEN Report(mo.err, "proportional", a1, i1, so.val, 0, 0, <<>>)
        ELSE IF cv.err # Ok THEN Report(cv.err, "calc_lamports_from_msol_amount", a1, i1, so.val, mo.val, 0, <<>>)
        ELSE IF total.err # Ok THEN Report(total.err, "checked_add", a1, i1, so.val, mo.val, 0, <<>>)
        ELSE IF mw # Ok THEN Report(mw, "require_gte", a1, i1, so.val, mo.val, total.val, <<>>)
        ELSE IF st.err # Ok THEN Report(st.err, st.failed_at, st.acc, i1 \o st.issued, so.val, mo.val, total.val, <<>>)
        ELSE Report(Ok, "none", st.acc, i1 \o st.issued \o <<"emit">>, so.val, mo.val, total.val,
                    <<RemoveLiquidityEvent(a, tokens, so.val, mo.val)>>)

\* process, lines 106-209: everything after the two entry checks
withdraw(a, authority, tokens, fault) ==
    LET a1 == update_lp_supply(a)
        i1 == IF a1 # a THEN <<"update_lp_supply">> ELSE <<>>
        d  == sol_leg_distributable(a1)
        so == proportional(tokens, d.val, a1.lp_supply)
        mo == proportional(tokens, a1.msol_leg_balance, a1.lp_supply)
        cv == calc_lamports_from_msol_amount(a1, mo.val)
        total == checked_add(so.val, cv.val)
        mw == check_min_withdraw(a1, total.val)
        st == settle(a1, authority, tokens, so.val, mo.val, fault)
    IN  IF d.err # Ok THEN Report(d.err, "checked_sub", a1, i1, 0, 0, 0, <<>>)
        ELSE IF so.err # Ok THEN Report(so.err, "proportional", a1, i1, 0, 0, 0, <<>>)
        ELSE IF mo.err # Ok THEN Report(mo.err, "proportional", a1, i1, so.val, 0, 0, <<>>)
        ELSE IF cv.err # Ok THEN Report(cv.err, "calc_lamports_from_msol_amount", a1, i1, so.val, mo.val, 0, <<>>)
        ELSE IF total.err # Ok THEN Report(total.err, "checked_add", a1, i1, so.val, mo.val, 0, <<>>)
        ELSE IF mw # Ok THEN Report(mw, "require_gte", a1, i1, so.val, mo.val, total.val, <<>>)
        ELSE IF st.err # Ok THEN Report(st.err, st.failed_at, st.acc, i1 \o st.issued, so.val, mo.val, total.val, <<>>)
        ELSE Report(Ok, "none", st.acc, i1 \o st.issued \o <<"emit">>, so.val, mo.val, total.val,
                    <<RemoveLiquidityEvent(a, tokens, so.val, mo.val)>>)

\* Mutant of process: the burn authority is checked before the pause flag.
process_AuthFirst(a, authority, tokens, fault) ==
    LET au == check_burn_from(a.burn_from, authority, tokens)
        p  == check_paused(a)
    IN  IF au # Ok THEN Report(au, "check_burn_from", a, <<>>, 0, 0, 0, <<>>)
        ELSE IF p # Ok THEN Report(p, "check_paused", a, <<>>, 0, 0, 0, <<>>)
        ELSE withdraw(a, authority, tokens, fault)

\* RemoveLiquidity::process
process(a, authority, tokens, fault) ==
    LET p  == check_paused(a)
        au == check_burn_from(a.burn_from, authority, tokens)
    IN  IF p # Ok THEN Report(p, "check_paused", a, <<>>, 0, 0, 0, <<>>)
        ELSE IF au # Ok THEN Report(au, "check_burn_from", a, <<>>, 0, 0, 0, <<>>)
        ELSE withdraw(a, authority, tokens, fault)

\* Mutant of commit: the accounts are written back whatever process returned.
commit_Always(a, r) == r.acc

\* The transaction around process (the `mut` accounts of RemoveLiquidity):
\* account writes and CPI effects are kept only when process returns Ok.
commit(a, r) == IF r.err = Ok THEN r.acc ELSE a

\* ------------------------------------------------------------------- state
Idle(a) ==
    [op |-> "none", authority |-> None, tokens |-> 0, pre |-> a,
     err |-> Ok, failed_at |-> "none", acc |-> a, issued |-> <<>>,
     sol_out_amount |-> 0, msol_out_amount |-> 0, total |-> 0, events |-> <<>>]

\* Allowances an LP account can carry: none, or a delegate (possibly the
\* owner itself) with a positive delegated amount.
Delegations ==
    {<<None, 0>>, <<"delegate", MaxSupply>>, <<"owner", 1>>}

\* Pool settings <<min_withdraw, msol_price>>: no minimum with mSOL priced
\* near the top of the word, and a minimum with mSOL at par.
Configs == {<<0, U64_MAX \div 2>>, <<MaxReserve, 1>>}

Init ==
    /\ paused = FALSE
    /\ lp_supply \in 0..MaxSupply
    /\ lp_mint_supply \in 0..MaxSupply
    /\ burn_from \in
         {[owner |-> "owner", delegate |-> d[1], delegated_amount |-> d[2],
           amount |-> am] : d \in Delegations, am \in 0..lp_mint_supply}
    /\ rent_exempt_for_token_acc = 1
    /\ sol_leg_balance \in 0..(MaxReserve + 1)
    /\ msol_leg_balance \in 0..MaxReserve
    /\ user_sol_balance = 0
    /\ user_msol_balance = 0
    /\ \E c \in Configs : min_withdraw = c[1] /\ msol_price = c[2]
    /\ last = Idle(Accounts)

Store(a) ==
    /\ paused' = a.paused
    /\ lp_supply' = a.lp_supply
    /\ lp_mint_supply' = a.lp_mint_supply
    /\ sol_leg_balance' = a.sol_leg_balance
    /\ msol_leg_balance' = a.msol_leg_balance
    /\ burn_from' = a.burn_from
    /\ user_sol_balance' = a.user_sol_balance
    /\ user_msol_balance' = a.user_msol_balance
    /\ rent_exempt_for_token_acc' = a.rent_exempt_for_token_acc
    /\ min_withdraw' = a.min_withdraw
    /\ msol_price' = a.msol_price

\* The faults that can show in a call: a CPI can only refuse if the call
\* gets as far as the settlement.
FaultsFor(a, authority, tokens) ==
    IF process(a, authority, tokens, "none").failed_at
           \in {"none", "transfer", "transfer_token", "burn", "on_lp_burn"}
    THEN Faults
    ELSE {"none"}

\* One remove_liquidity transaction.
RemoveLiquidity ==
    \E authority \in Keys, tokens \in 0..MaxTokens :
      \E fault \in FaultsFor(Accounts, authority, tokens) :
        LET r == process(Accounts, authority, tokens, fault)
        IN  /\ Store(commit(Accounts, r))
            /\ last' = [op |-> "remove_liquidity", authority |-> authority,
                        tokens |-> tokens, pre |-> Accounts,
                        err |-> r.err, failed_at |-> r.failed_at, acc |-> r.acc,
                        issued |-> r.issued,
                        sol_out_amount |-> r.sol_out_amount,
                        msol_out_amount |-> r.msol_out_amount,
                        total |-> r.total, events |-> r.events]

\* The admin pauses or resumes the program.
SetPaused ==
    LET a == [Accounts EXCEPT !.paused = ~paused]
    IN  Store(a) /\ last' = Idle(a)

\* LP tokens are minted outside this instruction, to burn_from or elsewhere.
MintLp ==
    /\ lp_mint_supply < MaxSupply
    /\ \E toUser \in BOOLEAN :
         LET a == [Accounts EXCEPT
                      !.lp_mint_supply = @ + 1,
                      !.burn_from.amount = IF toUser THEN @ + 1 ELSE @]
         IN  Store(a) /\ last' = Idle(a)

\* LP tokens are burned outside this instruction, from burn_from or elsewhere.
BurnLp ==
    \E fromUser \in BOOLEAN :
        /\ IF fromUser THEN burn_from.amount > 0
                       ELSE lp_mint_supply > burn_from.amount
        /\ LET a == [Accounts EXCEPT
                        !.lp_mint_supply = @ - 1,
                        !.burn_from.amount = IF fromUser THEN @ - 1 ELSE @]
           IN  Store(a) /\ last' = Idle(a)

Next == RemoveLiquidity \/ SetPaused \/ MintLp \/ BurnLp

Spec == Init /\ [][Next]_vars

\* ================================================================= claims
Called == last.op = "remove_liquidity"
Succeeded == Called /\ last.err = Ok
Pre == last.pre

\* The call got past check_paused, check_burn_from, the computation of the
\* amounts and the min_withdraw check.
PassedChecks ==
    /\ Called
    /\ last.failed_at \in {"none", "transfer", "transfer_token", "burn", "on_lp_burn"}

\* The virtual supply both legs are divided by: the smaller of the virtual
\* and the minted supply found by the call.
ReconciledSupply ==
    IF Pre.lp_supply <= Pre.lp_mint_supply THEN Pre.lp_supply ELSE Pre.lp_mint_supply

Range(q) == {q[i] : i \in 1..Len(q)}

AllEffects ==
    /\ sol_leg_balance = Pre.sol_leg_balance - last.sol_out_amount
    /\ user_sol_balance = Pre.user_sol_balance + last.sol_out_amount
    /\ msol_leg_balance = Pre.msol_leg_balance - last.msol_out_amount
    /\ user_msol_balance = Pre.user_msol_balance + last.msol_out_amount
    /\ burn_from.amount = Pre.burn_from.amount - last.tokens
    /\ lp_mint_supply = Pre.lp_mint_supply - last.tokens
    /\ lp_supply = ReconciledSupply - last.tokens

NoEffects == Accounts = Pre

\* C1: after any call, successful or failed at any step, the SOL transfer,
\* the mSOL transfer, the burn and the virtual-supply decrement have all
\* taken effect (the call returned Ok) or none of them has (it did not).
C1_Atomicity ==
    Called => /\ last.err = Ok => AllEffects
              /\ last.err # Ok => NoEffects

\* C1 witness: a call that failed after its SOL transfer had been issued.
C1_Witness ==
    /\ Called
    /\ last.failed_at \in {"transfer_token", "burn", "on_lp_burn"}
    /\ last.sol_out_amount > 0
    /\ "transfer" \in Range(last.issued)

\* C2: a call refused by the pause check, the authority check or the
\* min_withdraw check leaves both legs, the LP account, the mint supply and
\* the virtual supply as they were, the write of line 113 included.
C2_IdempotentRejection ==
    (Called /\ last.failed_at \in {"check_paused", "check_burn_from", "require_gte"})
    => /\ sol_leg_balance = Pre.sol_leg_balance
       /\ msol_leg_balance = Pre.msol_leg_balance
       /\ burn_from = Pre.burn_from
       /\ lp_mint_supply = Pre.lp_mint_supply
       /\ lp_supply = Pre.lp_supply

\* C2 witness: a WithdrawAmountIsTooLow call that had already lowered the
\* virtual supply in memory.
C2_Witness ==
    /\ Called
    /\ last.err = "WithdrawAmountIsTooLow"
    /\ last.acc.lp_supply < Pre.lp_supply

C4_FloorKept ==
    [][sol_leg_balance >= rent_exempt_for_token_acc
         => sol_leg_balance' >= rent_exempt_for_token_acc']_vars

\* C4 witness: a successful call that paid all the distributable SOL and
\* left exactly the floor.
C4_Witness ==
    /\ Succeeded
    /\ last.sol_out_amount > 0
    /\ sol_leg_balance = rent_exempt_for_token_acc

\* C5: no call, successful or failed, leaves the virtual supply above what
\* it was before the call.
C5_SupplyMonotone == Called => lp_supply <= Pre.lp_supply

\* C5 witness: a successful burn while the mint supply was above the
\* virtual supply.
C5_Witness ==
    /\ Succeeded
    /\ Pre.lp_mint_supply > Pre.lp_supply
    /\ last.tokens > 0
    /\ lp_supply < Pre.lp_supply

\* C6: right after a successful call the virtual supply is at most the
\* mint supply.
C6_VirtualAtMostActual == Succeeded => lp_supply <= lp_mint_supply

\* C6 witness: a successful burn that found the virtual supply above the
\* mint supply.
C6_Witness ==
    /\ Succeeded
    /\ Pre.lp_supply > Pre.lp_mint_supply
    /\ last.tokens > 0

\* C7: a successful call was signed by the delegate within the delegated
\* amount or by the owner within the balance, and it burned exactly `tokens`.
C7_BurnWithinAuthority ==
    Succeeded
    => /\ \/ /\ Pre.burn_from.delegate = last.authority
             /\ last.tokens <= Pre.burn_from.delegated_amount
          \/ /\ last.authority = Pre.burn_from.owner
             /\ last.tokens <= Pre.burn_from.amount
       /\ Pre.burn_from.amount - burn_from.amount = last.tokens
       /\ Pre.lp_mint_supply - lp_mint_supply = last.tokens

\* C7 witness: a successful burn signed by a delegate that is not the owner,
\* which paid SOL out.
C7_Witness ==
    /\ Succeeded
    /\ last.authority = "delegate"
    /\ last.tokens > 0
    /\ last.sol_out_amount > 0

\* The total the min_withdraw check compares, from the amounts of the call.
TotalValue == last.sol_out_amount + last.msol_out_amount * Pre.msol_price

\* The call got as far as the min_withdraw check.
ReachedMinWithdraw == PassedChecks \/ (Called /\ last.failed_at = "require_gte")

\* C8: a call whose total value is below min_withdraw fails with
\* WithdrawAmountIsTooLow with no transfer or burn issued, a total equal to
\* min_withdraw is let through, and every success has total >= min_withdraw.
C8_MinWithdraw ==
    /\ ReachedMinWithdraw
       => /\ (last.err = "WithdrawAmountIsTooLow") <=> (TotalValue < Pre.min_withdraw)
          /\ last.err = "WithdrawAmountIsTooLow"
             => /\ Range(last.issued) \cap {"transfer", "transfer_token", "burn"} = {}
                /\ NoEffects
    /\ Succeeded => TotalValue >= Pre.min_withdraw

\* C8 witness: a successful call whose total value is exactly a positive
\* min_withdraw.
C8_Witness ==
    /\ Succeeded
    /\ Pre.min_withdraw > 0
    /\ TotalValue = Pre.min_withdraw

\* What check_burn_from returned in a call that got past the pause check.
AuthResult == IF last.failed_at = "check_burn_from" THEN last.err ELSE Ok

\* The error an owner over the balance gets.
OwnerOverLimitError ==
    check_burn_from([owner |-> "owner", delegate |-> None,
                     delegated_amount |-> 0, amount |-> 0], "owner", 1)

C10_PauseFirst ==
    (Called /\ Pre.paused)
    => /\ last.err = "Paused"
       /\ last.failed_at = "check_paused"
       /\ last.issued = <<>>
       /\ last.events = <<>>
       /\ last.acc = Pre
       /\ NoEffects

\* C10 witness: a paused call by a signer that is neither owner nor
\* delegate, on a pool whose virtual supply is zero.
C10_Witness ==
    /\ Called
    /\ Pre.paused
    /\ last.authority = "stranger"
    /\ Pre.lp_supply = 0
    /\ last.err = "Paused"

\* C11: a successful call takes exactly `tokens` from the LP account and
\* from the mint supply, and leaves the virtual supply at the reconciled
\* supply (the smaller of the virtual and the mint supply it found) minus
\* `tokens`.
C11_PostState ==
    Succeeded
    => /\ burn_from.amount = Pre.burn_from.amount - last.tokens
       /\ lp_mint_supply = Pre.lp_mint_supply - last.tokens
       /\ lp_supply = ReconciledSupply - last.tokens

\* C11 witness: a successful burn paying from both legs, after the virtual
\* supply had to be lowered to the mint supply.
C11_Witness ==
    /\ Succeeded
    /\ Pre.lp_supply > Pre.lp_mint_supply
    /\ last.tokens > 0
    /\ last.sol_out_amount > 0
    /\ last.msol_out_amount > 0
    /\ lp_supply = Pre.lp_mint_supply - last.tokens

\* C12: a successful call emits exactly one RemoveLiquidityEvent and a failed
\* call none; the event carries the balances and the mint supply as they
\* were before the call, and the amounts actually burned and paid out.
C12_EventEmission ==
    Called
    => /\ last.err # Ok => last.events = <<>>
       /\ last.err = Ok
          => /\ Len(last.events) = 1
             /\ LET e == last.events[1]
                IN  /\ e.sol_leg_balance = Pre.sol_leg_balance
                    /\ e.msol_leg_balance = Pre.msol_leg_balance
                    /\ e.user_lp_balance = Pre.burn_from.amount
                    /\ e.user_sol_balance = Pre.user_sol_balance
                    /\ e.user_msol_balance = Pre.user_msol_balance
                    /\ e.lp_mint_supply = Pre.lp_mint_supply
                    /\ e.lp_burned = Pre.burn_from.amount - burn_from.amount
                    /\ e.sol_out_amount = Pre.sol_leg_balance - sol_leg_balance
                    /\ e.msol_out_amount = Pre.msol_leg_balance - msol_leg_balance
                    /\ e.sol_out_amount = user_sol_balance - Pre.user_sol_balance
                    /\ e.msol_out_amount = user_msol_balance - Pre.user_msol_balance

\* C12 witness: the event of a second withdrawal, whose snapshot differs
\* from the balances after it and shows what the first withdrawal paid.
C12_Witness ==
    /\ Succeeded
    /\ Len(last.events) = 1
    /\ last.events[1].user_sol_balance > 0
    /\ last.events[1].lp_burned > 0
    /\ last.events[1].sol_out_amount > 0
    /\ last.events[1].lp_mint_supply > Pre.lp_supply

\* Both amounts were computed: the call got past the two proportional calls.
AmountsComputed ==
    /\ Called
    /\ last.failed_at \notin {"check_paused", "check_burn_from", "checked_sub",
                              "proportional"}

\* out is the floor of tokens * reserve / supply.
IsFloor(out, tokens, reserve, supply) ==
    /\ out * supply <= tokens * reserve
    /\ tokens * reserve < (out + 1) * supply

\* C13: for tokens at most a positive reconciled virtual supply, each amount
\* is the floor of tokens * reserve / supply, both legs over the same
\* reconciled virtual supply.
C13_Proportionality ==
    (AmountsComputed /\ ReconciledSupply > 0 /\ last.tokens <= ReconciledSupply)
    => /\ IsFloor(last.sol_out_amount, last.tokens,
                  Pre.sol_leg_balance - Pre.rent_exempt_for_token_acc,
                  ReconciledSupply)
       /\ IsFloor(last.msol_out_amount, last.tokens,
                  Pre.msol_leg_balance, ReconciledSupply)

\* C13 witness: a call whose SOL share is rounded down to nothing while the
\* mSOL share is exact.
C13_Witness ==
    /\ AmountsComputed
    /\ ReconciledSupply > 0
    /\ last.tokens <= ReconciledSupply
    /\ last.tokens * (Pre.sol_leg_balance - Pre.rent_exempt_for_token_acc) > 0
    /\ last.sol_out_amount = 0
    /\ last.msol_out_amount > 0

\* The virtual supply held in memory when the call computed its amounts: the
\* one it returned with, before the decrement of a completed on_lp_burn.
SupplyUsed ==
    IF last.failed_at = "none" THEN last.acc.lp_supply + last.tokens
                               ELSE last.acc.lp_supply

C15_Original ==
    (Called /\ ReconciledSupply = 0) => last.err = "DivisionByZeroSupply"

\* C15 amended: with a reconciled virtual supply of zero no call succeeds
\* and nothing leaves the legs, and every call that gets past the pause
\* check, the authority check and the subtraction of the floor fails with
\* DivisionByZeroSupply, whatever tokens and min_withdraw are.
C15_EmptyPool ==
    (Called /\ ReconciledSupply = 0)
    => /\ last.err # Ok
       /\ NoEffects
       /\ Range(last.issued) \cap {"transfer", "transfer_token", "burn"} = {}
       /\ last.failed_at \notin {"check_paused", "check_burn_from", "checked_sub"}
          => /\ last.err = "DivisionByZeroSupply"
             /\ last.failed_at = "proportional"

\* C15 witness: a call for zero tokens with no minimum, under a positive
\* mint supply, refused for the empty virtual supply.
C15_Witness ==
    /\ Called
    /\ Pre.lp_supply = 0
    /\ Pre.lp_mint_supply > 0
    /\ last.tokens = 0
    /\ Pre.min_withdraw = 0
    /\ last.err = "DivisionByZeroSupply"

\* C16: with the rent-exempt floor above the SOL leg, a call past the pause
\* and authority checks returns the error ArithmeticUnderflow and changes
\* nothing.
C16_FloorAboveBalance ==
    (/\ Called
     /\ last.failed_at \notin {"check_paused", "check_burn_from"}
     /\ Pre.sol_leg_balance < Pre.rent_exempt_for_token_acc)
    => /\ last.err = "ArithmeticUnderflow"
       /\ NoEffects

\* The lamports the mSOL amount of the call converts to, and the total.
ConvertedValue == last.msol_out_amount * Pre.msol_price

\* C17: when the conversion of the mSOL amount or its sum with the SOL amount
\* does not fit the word, the call fails with CalculationFailure before the
\* min_withdraw comparison; no transfer or burn is issued and nothing changes.
C17_NoWrapping ==
    (AmountsComputed /\ (ConvertedValue > U64_MAX \/ TotalValue > U64_MAX))
    => /\ last.err = "CalculationFailure"
       /\ last.failed_at = IF ConvertedValue > U64_MAX
                           THEN "calc_lamports_from_msol_amount"
                           ELSE "checked_add"
       /\ Range(last.issued) \cap {"transfer", "transfer_token", "burn"} = {}
       /\ NoEffects

\* C17 witness: a sum that would wrap to a value passing the min_withdraw
\* comparison, with tokens within the virtual supply.
C17_Witness ==
    /\ AmountsComputed
    /\ last.tokens <= ReconciledSupply
    /\ ConvertedValue <= U64_MAX
    /\ TotalValue > U64_MAX
    /\ TotalValue % (U64_MAX + 1) >= Pre.min_withdraw
    /\ last.err = "CalculationFailure"

\* C18: a successful call never burns more than the reconciled virtual
\* supply it computed with, and the virtual supply stays within the word.
C18_BurnWithinSupply ==
    /\ lp_supply \in 0..U64_MAX
    /\ Succeeded => last.tokens <= ReconciledSupply

\* C18 witness: a holder of more LP than the virtual supply, under a larger
\* mint supply, asks for more than the virtual supply and is refused by
\* on_lp_burn after both CPIs of the burn went through.
C18_Witness ==
    /\ Called
    /\ Pre.lp_mint_supply > Pre.lp_supply
    /\ last.tokens > Pre.lp_supply
    /\ last.tokens <= Pre.burn_from.amount
    /\ last.failed_at = "on_lp_burn"
    /\ last.err = "CalculationFailure"

\* The call found no mint supply above the virtual supply.
NoDrift == Pre.lp_mint_supply <= Pre.lp_supply

\* A withdrawal of b tokens made right after the latest call, and a single
\* withdrawal of the latest call's tokens plus b made in its place.
SecondCall(b) == process(Accounts, last.authority, b, "none")
SingleCall(b) == process(Pre, last.authority, last.tokens + b, "none")

\* C19: without drift, a successful withdrawal does not lower what a
\* remaining LP token is worth on either leg, and a second successful
\* withdrawal right after it pays with it, on each leg, at most what one
\* withdrawal of the sum would have paid.
C19_SplitNeverPaysMore ==
    (Succeeded /\ NoDrift)
    => /\ (sol_leg_balance - rent_exempt_for_token_acc) * ReconciledSupply
            >= (Pre.sol_leg_balance - Pre.rent_exempt_for_token_acc) * lp_supply
       /\ msol_leg_balance * ReconciledSupply >= Pre.msol_leg_balance * lp_supply
       /\ \A b \in 0..MaxTokens :
            (SecondCall(b).err = Ok /\ SingleCall(b).err = Ok)
            => /\ last.sol_out_amount + SecondCall(b).sol_out_amount
                    <= SingleCall(b).sol_out_amount
               /\ last.msol_out_amount + SecondCall(b).msol_out_amount
                    <= SingleCall(b).msol_out_amount

\* C19 witness: a successful withdrawal whose SOL share was rounded down,
\* after which a second one can follow and the single one was possible too.
C19_Witness ==
    /\ Succeeded
    /\ NoDrift
    /\ last.tokens > 0
    /\ last.tokens * (Pre.sol_leg_balance - Pre.rent_exempt_for_token_acc) > 0
    /\ last.sol_out_amount = 0
    /\ \E b \in 1..MaxTokens :
         /\ SecondCall(b).err = Ok
         /\ SingleCall(b).err = Ok
         /\ SecondCall(b).sol_out_amount > 0

\* C20: a successful call for the whole reconciled virtual supply pays all
\* the distributable SOL and the whole mSOL leg, leaving the floor, an empty
\* mSOL leg and a virtual supply of zero.
C20_FullExit ==
    (Succeeded /\ last.tokens = ReconciledSupply /\ ReconciledSupply > 0)
    => /\ last.sol_out_amount = Pre.sol_leg_balance - Pre.rent_exempt_for_token_acc
       /\ last.msol_out_amount = Pre.msol_leg_balance
       /\ sol_leg_balance = rent_exempt_for_token_acc
       /\ msol_leg_balance = 0
       /\ lp_supply = 0

\* C20 witness: a full exit that emptied both legs while LP tokens minted
\* outside remain.
C20_Witness ==
    /\ Succeeded
    /\ last.tokens = ReconciledSupply
    /\ ReconciledSupply > 0
    /\ last.sol_out_amount > 0
    /\ last.msol_out_amount > 0
    /\ lp_supply = 0
    /\ lp_mint_supply > 0

====
